---- MODULE Spec2Model ----
(***************************************************************************)
(* A model of the two notebooks of keras_notebooks, MNIST_cnn and          *)
(* Reuters_MLP, executed top to bottom: one action per code cell.  The     *)
(* framework calls (load_data, Sequential.add, compile, fit, evaluate)     *)
(* are modelled by what the notebook observes of them: shapes, layer       *)
(* lists, batch ranges, and the position of numpy's random stream.         *)
(***************************************************************************)
EXTENDS Integers, Sequences, FiniteSets

VARIABLES nb, pc, settings, raw, data, layers, compiled, kernel, rerun,
          fitted, score, fs, prompt, saved, trace, err

vars == <<nb, pc, settings, raw, data, layers, compiled, kernel, rerun,
          fitted, score, fs, prompt, saved, trace, err>>

(* ------------------------------------------------------------------ *)
(* Bounds of the model                                                 *)
(* ------------------------------------------------------------------ *)
MaxSamples == 3      \* MNIST: training images
MaxTest == 1         \* MNIST: test images
MaxCorpus == 4       \* Reuters: articles in the corpus
MaxHidden == 2       \* nb_hidden values tried besides the notebooks' own
MaxBatch == 2        \* batch_size values tried besides the notebooks' own

(* ------------------------------------------------------------------ *)
(* Program constants: the settings cells                               *)
(* ------------------------------------------------------------------ *)
seed_value == 1337

mnist_batch_size == 128
mnist_nb_classes == 10
mnist_nb_epoch == 12
img_rows == 28
img_cols == 28
nb_filters == 32
nb_pool == 2
nb_conv == 3
conv_dropout == "0.25"
dens_dropout == "0.5"
mnist_nb_hidden == 128

max_words == 1000
reuters_batch_size == 32
reuters_nb_epoch == 15
nb_dense == 512
reuters_nb_hidden == 1
p_dropout == "0.5"

(* keras.datasets.reuters.load_data defaults the notebook relies on *)
start_char == 1
oov_char == 2
index_from == 3

Notebooks == {"MNIST_cnn", "Reuters_MLP"}

(* ------------------------------------------------------------------ *)
(* The notebooks as sequences of code cells                            *)
(* ------------------------------------------------------------------ *)
(* the save cell moved above the fit cell *)
MnistCellsSaveBeforeFit ==
    << "imports", "settings", "load", "build", "save", "fit", "evaluate",
       "plot_imports", "def_show_predictions", "show_predictions" >>

MnistCells ==
    << "imports", "settings", "load", "build", "fit", "evaluate",
       "plot_imports", "def_show_predictions", "show_predictions", "save" >>

ReutersCells ==
    << "imports", "settings", "load", "build", "fit", "evaluate",
       "import_output_model", "save" >>

Cells(n) == IF n = "MNIST_cnn" THEN MnistCells ELSE ReutersCells

Done == pc > Len(Cells(nb))

Cell == IF Done THEN "end" ELSE Cells(nb)[pc]

(* ------------------------------------------------------------------ *)
(* numpy's global random generator                                     *)
(* ------------------------------------------------------------------ *)
NoRng == [kind |-> "none", seed |-> 0, pos |-> 0]

(* what the operating system may hand an unseeded generator *)
EntropyChoices == {0, 1}

(* the state of a kernel nobody has seeded: taken from OS entropy *)
BootRng(e) == [kind |-> "entropy", seed |-> e, pos |-> 0]

(* np.random.seed(s): the state is a function of s alone *)
SeedRng(r, s) == [kind |-> "seeded", seed |-> s, pos |-> 0]

(* n values drawn from the stream *)
Advance(r, n) == [r EXCEPT !.pos = @ + n]

(* the weights of the model: decided, on given data and settings, by   *)
(* the initial weights, the shuffles of fit and the epochs trained      *)
NoTrained == [ initial |-> NoRng, shuffles |-> NoRng, epochs |-> 0 ]

Trained(k) == [ initial |-> k.weights, shuffles |-> k.stream, epochs |-> k.epochs ]

(* what of a kernel depends on the random stream *)
BootKernel(e) ==
    [ boot    |-> e,
      rng     |-> BootRng(e),
      weights |-> NoRng,     \* stream position the initial weights were drawn at
      stream  |-> NoRng,     \* stream position fit started at
      epochs  |-> 0,         \* per-epoch metrics reported
      scored  |-> FALSE,
      shown   |-> NoRng,     \* stream position show_predictions drew its index at
      validated |-> NoTrained,    \* the weights the last validation of fit ran on
      evaluated |-> NoTrained ]   \* the weights evaluate ran on

(* ------------------------------------------------------------------ *)
(* Layers, as the notebook's constructor calls configure them          *)
(* ------------------------------------------------------------------ *)
NoShape == << >>

(* Convolution2D(nb_filter, nb_row, nb_col, border_mode='valid', input_shape) *)
Convolution2D(nb_filter, nb_row, nb_col, border_mode, input_shape) ==
    [ type |-> "Convolution2D", nb_filter |-> nb_filter, nb_row |-> nb_row,
      nb_col |-> nb_col, border_mode |-> border_mode, input_shape |-> input_shape ]

(* the framework's default for border_mode when the call omits it *)
DefaultBorderMode == "valid"

Activation(fn) == [ type |-> "Activation", fn |-> fn ]

MaxPooling2D(pool_size) == [ type |-> "MaxPooling2D", pool_size |-> pool_size ]

Dropout(p) == [ type |-> "Dropout", p |-> p ]

Flatten == [ type |-> "Flatten" ]

Dense(output_dim, input_shape) ==
    [ type |-> "Dense", output_dim |-> output_dim, input_shape |-> input_shape ]

(* range(n): the number of iterations of "for _ in range(n)" *)
RangeLen(n) == IF n > 0 THEN n ELSE 0

(* a build cell that reads nb_hidden as a number of layers: two hidden   *)
(* Dense layers of nb_hidden units                                      *)
MnistLayersTwoHidden(nb_hidden, nb_classes) ==
    << Convolution2D(nb_filters, nb_conv, nb_conv, "valid", <<1, img_rows, img_cols>>),
       Activation("relu"),
       Convolution2D(nb_filters, nb_conv, nb_conv, DefaultBorderMode, NoShape),
       Activation("relu"),
       MaxPooling2D(<<nb_pool, nb_pool>>),
       Dropout(conv_dropout),
       Flatten,
       Dense(nb_hidden, NoShape),
       Activation("relu"),
       Dropout(dens_dropout),
       Dense(nb_hidden, NoShape),
       Activation("relu"),
       Dropout(dens_dropout),
       Dense(nb_classes, NoShape),
       Activation("softmax") >>

(* a build cell that pools after each convolution, as in the picture    *)
(* the notebook shows                                                   *)
MnistLayersPoolAfterEach(nb_hidden, nb_classes) ==
    << Convolution2D(nb_filters, nb_conv, nb_conv, "valid", <<1, img_rows, img_cols>>),
       Activation("relu"),
       MaxPooling2D(<<nb_pool, nb_pool>>),
       Convolution2D(nb_filters, nb_conv, nb_conv, DefaultBorderMode, NoShape),
       Activation("relu"),
       MaxPooling2D(<<nb_pool, nb_pool>>),
       Dropout(conv_dropout),
       Flatten,
       Dense(nb_hidden, NoShape),
       Activation("relu"),
       Dropout(dens_dropout),
       Dense(nb_classes, NoShape),
       Activation("softmax") >>

(* a build cell whose second convolution pads and doubles the filters *)
MnistLayersSecondConvDiffers(nb_hidden, nb_classes) ==
    << Convolution2D(nb_filters, nb_conv, nb_conv, "valid", <<1, img_rows, img_cols>>),
       Activation("relu"),
       Convolution2D(2 * nb_filters, nb_conv, nb_conv, "same", NoShape),
       Activation("relu"),
       MaxPooling2D(<<nb_pool, nb_pool>>),
       Dropout(conv_dropout),
       Flatten,
       Dense(nb_hidden, NoShape),
       Activation("relu"),
       Dropout(dens_dropout),
       Dense(nb_classes, NoShape),
       Activation("softmax") >>

(* MNIST_cnn, "Setup the model": the model.add calls in order *)
MnistLayers(nb_hidden, nb_classes) ==
    << Convolution2D(nb_filters, nb_conv, nb_conv, "valid", <<1, img_rows, img_cols>>),
       Activation("relu"),
       Convolution2D(nb_filters, nb_conv, nb_conv, DefaultBorderMode, NoShape),
       Activation("relu"),
       MaxPooling2D(<<nb_pool, nb_pool>>),
       Dropout(conv_dropout),
       Flatten,
       Dense(nb_hidden, NoShape),
       Activation("relu"),
       Dropout(dens_dropout),
       Dense(nb_classes, NoShape),
       Activation("softmax") >>

(* one pass of the body of the Reuters loop *)
HiddenBlock(input_shape) ==
    << Dense(nb_dense, input_shape), Activation("relu"), Dropout(p_dropout) >>

RECURSIVE HiddenLoop(_)
HiddenLoop(n) == IF n = 0 THEN << >> ELSE HiddenBlock(NoShape) \o HiddenLoop(n - 1)

(* Reuters_MLP, "Build the Neural Network": a first block with the input   *)
(* shape, then "for _ in range(nb_hidden-1)", then the output layer        *)
ReutersLayers(nb_hidden, nb_classes) ==
    HiddenBlock(<<max_words>>)
      \o HiddenLoop(RangeLen(nb_hidden - 1))
      \o << Dense(nb_classes, NoShape), Activation("softmax") >>

(* layers whose construction draws from numpy's stream: the initial     *)
(* weights of Dense and Convolution2D, the seed of a Dropout's mask     *)
NbRandomLayers(ls) ==
    Cardinality({ i \in DOMAIN ls : ls[i].type \in {"Dense", "Convolution2D", "Dropout"} })

(* the width of the model's output: the last layer that sets one *)
RECURSIVE OutputDim(_)
OutputDim(ls) ==
    IF ls = << >> THEN 0
    ELSE IF ls[Len(ls)].type = "Dense" THEN ls[Len(ls)].output_dim
    ELSE IF ls[Len(ls)].type \in {"Activation", "Dropout"} THEN OutputDim(SubSeq(ls, 1, Len(ls) - 1))
    ELSE 0

(* ------------------------------------------------------------------ *)
(* Datasets: what the loaders read, and the preprocessing of the load  *)
(* cells                                                               *)
(* ------------------------------------------------------------------ *)
RECURSIVE SeqMax(_)
SeqMax(q) ==
    IF Len(q) = 1 THEN q[1]
    ELSE IF q[1] >= SeqMax(Tail(q)) THEN q[1] ELSE SeqMax(Tail(q))

SeqsUpTo(S, lo, hi) == UNION { [1..n -> S] : n \in lo..hi }

(* to_categorical called without nb_classes: the width is max(y) + 1 *)
ToCategoricalInferred(y, nb_classes) ==
    [ i \in 1..Len(y) |-> [ j \in 0..SeqMax(y) |-> IF j = y[i] THEN 1 ELSE 0 ] ]

(* np_utils.to_categorical(y, nb_classes): a len(y) x nb_classes matrix of *)
(* zeros with Y[i, y[i]] = 1                                               *)
ToCategorical(y, nb_classes) ==
    [ i \in 1..Len(y) |-> [ j \in 0..(nb_classes - 1) |-> IF j = y[i] THEN 1 ELSE 0 ] ]

(* Y[i, y[i]] = 1 raises IndexError for a label outside the columns *)
ToCategoricalRaises(y, nb_classes) ==
    \E i \in 1..Len(y) : y[i] >= nb_classes

(* the width of a label matrix *)
Width(Y) == IF Len(Y) = 0 THEN 0 ELSE Cardinality(DOMAIN Y[1])

(* --- MNIST --- *)
DigitChoices == {0, 9}

(* mnist.load_data(): uint8 images of 28 x 28 and their digits, already split *)
Images(n) == [ shape |-> <<n, 28, 28>>, dtype |-> "uint8", max |-> 255 ]

MnistRaw ==
    { [ X_train |-> Images(Len(ytr)), y_train |-> ytr,
        X_test  |-> Images(Len(yte)), y_test  |-> yte ] :
        ytr \in SeqsUpTo(DigitChoices, 1, MaxSamples),
        yte \in SeqsUpTo(DigitChoices, 1, MaxTest) }

RECURSIVE Product(_)
Product(q) == IF q = << >> THEN 1 ELSE q[1] * Product(Tail(q))

(* X.reshape(X.shape[0], 1, img_rows, img_cols) *)
Reshape(X, shape) == [ X EXCEPT !.shape = shape ]

(* reshape raises ValueError when the element counts differ *)
ReshapeRaises(X, shape) == Product(X.shape) # Product(shape)

(* X.astype('float32') followed by X /= 255 *)
Normalise(X) == [ X EXCEPT !.dtype = "float32", !.max = @ \div 255 ]

MnistPreprocess(X) ==
    Normalise(Reshape(X, <<X.shape[1], 1, img_rows, img_cols>>))

(* --- Reuters --- *)
(* an article of the corpus: the frequency ranks of its words, its topic *)
ArticleChoices ==
    { [ words |-> <<1>>,        label |-> 0 ],
      [ words |-> <<996, 996>>, label |-> 1 ],
      [ words |-> <<997, 1>>,   label |-> 45 ] }

(* the corpus in the order load_data's fixed shuffle leaves it in *)
ReutersRaw == SeqsUpTo(ArticleChoices, 3, MaxCorpus)

(* load_data: every sequence gets start_char in front and its ranks    *)
(* shifted by index_from; then a word at or above nb_words becomes     *)
(* oov_char                                                            *)
Indexed(words) == <<start_char>> \o [ i \in 1..Len(words) |-> words[i] + index_from ]

CapWords(q, nb_words) ==
    [ i \in 1..Len(q) |-> IF q[i] >= nb_words THEN oov_char ELSE q[i] ]

(* int(len(X) * (1 - test_split)) with test_split = 0.2 *)
TestSplitAt(n) == (n * 8) \div 10

(* reuters.load_data(nb_words, test_split=0.2) *)
LoadReuters(corpus, nb_words) ==
    LET X == [ i \in 1..Len(corpus) |-> CapWords(Indexed(corpus[i].words), nb_words) ]
        y == [ i \in 1..Len(corpus) |-> corpus[i].label ]
        k == TestSplitAt(Len(corpus))
    IN  [ X_train |-> SubSeq(X, 1, k),  y_train |-> SubSeq(y, 1, k),
          X_test  |-> SubSeq(X, k + 1, Len(X)), y_test |-> SubSeq(y, k + 1, Len(y)) ]

(* the columns a sequence sets and how often it names each; indices at *)
(* or above nb_words are skipped                                       *)
Counts(q, nb_words) ==
    [ j \in { q[i] : i \in { i \in 1..Len(q) : q[i] < nb_words } } |->
        Cardinality({ i \in 1..Len(q) : q[i] = j }) ]

(* sequences_to_matrix in mode='count' *)
SequencesToMatrixCount(seqs, nb_words) ==
    [ shape |-> <<Len(seqs), nb_words>>,
      rows  |-> [ i \in 1..Len(seqs) |-> Counts(seqs[i], nb_words) ] ]

(* Tokenizer(nb_words).sequences_to_matrix(seqs, mode='binary'): a      *)
(* len(seqs) x nb_words matrix, kept by its nonzero entries            *)
SequencesToMatrix(seqs, nb_words) ==
    [ shape |-> <<Len(seqs), nb_words>>,
      rows  |-> [ i \in 1..Len(seqs) |->
                    [ j \in DOMAIN Counts(seqs[i], nb_words) |-> 1 ] ] ]

(* ------------------------------------------------------------------ *)
(* fit and evaluate, as the notebooks call them                        *)
(* ------------------------------------------------------------------ *)
Min(a, b) == IF a <= b THEN a ELSE b

(* make_batches that drops the samples left after the last full batch *)
MakeBatchesFloor(size, batch_size) ==
    [ i \in 1..(size \div batch_size) |->
        << (i - 1) * batch_size, i * batch_size >> ]

(* make_batches(size, batch_size): ceil(size / batch_size) ranges *)
MakeBatches(size, batch_size) ==
    [ i \in 1..((size + batch_size - 1) \div batch_size) |->
        << (i - 1) * batch_size, Min(size, i * batch_size) >> ]

(* a split that rounds the training share up instead of down *)
ValidationSplitAtCeiling(n) == (n * 9 + 9) \div 10

(* int(len(X) * (1. - validation_split)) with validation_split = 0.1 *)
ValidationSplitAt(n) == (n * 9) \div 10

(* the samples a batch range holds: make_batches counts from 0 *)
BatchSamples(b) == (b[1] + 1)..b[2]

(* model.evaluate(X, Y) called without batch_size *)
evaluate_batch_size == 32

(* _test_loop(f, ins, batch_size): loss and metrics of every batch in    *)
(* test mode, weighted by the batch's length, summed and divided by the *)
(* number of samples; kept here as how often each sample counts         *)
TestLoop(n, batch_size) ==
    LET batches == MakeBatches(n, batch_size)
    IN  [ i \in 1..n |->
            Cardinality({ b \in DOMAIN batches : i \in BatchSamples(batches[b]) }) ]

(* the training loop: every batch of every epoch is one gradient update *)
RECURSIVE FitLoop(_, _)
FitLoop(nb_epoch, batches) ==
    IF nb_epoch = 0 THEN 0 ELSE Len(batches) + FitLoop(nb_epoch - 1, batches)

NoFit ==
    [ done |-> FALSE, train |-> {}, val_from |-> "", val |-> {},
      batches |-> << >>, nb_epoch |-> 0, updates |-> 0, val_counted |-> << >> ]

(* a fit that holds out a tenth of the training set instead of          *)
(* validating on the test set                                           *)
FitWithoutTestSet(n_train, n_test, batch_size, nb_epoch) ==
    LET split_at == (n_train * 9) \div 10
        batches  == MakeBatches(split_at, batch_size)
    IN  [ done |-> TRUE, train |-> 1..split_at, val_from |-> "X_train",
          val |-> (split_at + 1)..n_train,
          batches |-> batches, nb_epoch |-> nb_epoch,
          updates |-> FitLoop(nb_epoch, batches),
          val_counted |-> TestLoop(n_train - split_at, batch_size) ]

(* model.fit(X_train, Y_train, batch_size, nb_epoch, validation_data=(X_test, Y_test)) *)
FitWithValidationData(n_train, n_test, batch_size, nb_epoch) ==
    LET batches == MakeBatches(n_train, batch_size)
    IN  [ done |-> TRUE, train |-> 1..n_train, val_from |-> "X_test", val |-> 1..n_test,
          batches |-> batches, nb_epoch |-> nb_epoch,
          updates |-> FitLoop(nb_epoch, batches),
          val_counted |-> TestLoop(n_test, batch_size) ]

(* model.fit(X_train, Y_train, nb_epoch, batch_size, validation_split=0.1) *)
FitWithValidationSplit(n_train, batch_size, nb_epoch) ==
    LET split_at == ValidationSplitAt(n_train)
        batches  == MakeBatches(split_at, batch_size)
    IN  [ done |-> TRUE, train |-> 1..split_at, val_from |-> "X_train",
          val |-> (split_at + 1)..n_train,
          batches |-> batches, nb_epoch |-> nb_epoch,
          updates |-> FitLoop(nb_epoch, batches),
          val_counted |-> TestLoop(n_train - split_at, batch_size) ]

(* fit and evaluate raise on a model that is not compiled or whose     *)
(* output width is not the width of the targets                        *)
ModelRaises(ls, is_compiled, Y) ==
    \/ ~is_compiled
    \/ ls = << >>
    \/ OutputDim(ls) # Width(Y)

(* ------------------------------------------------------------------ *)
(* What each cell does to the random stream of a kernel                *)
(* ------------------------------------------------------------------ *)
(* the imports cell without its call of np.random.seed *)
KSeedMissing(k) == k

(* "np.random.seed(1337)  # for reproducibility" *)
KSeed(k) == [ k EXCEPT !.rng = SeedRng(k.rng, seed_value) ]

(* reuters.load_data reseeds numpy with its own seed before each of its *)
(* two shuffles (the sequences, the labels)                             *)
load_data_seed == 113

KLoadReuters(k) == [ k EXCEPT !.rng = Advance(SeedRng(k.rng, load_data_seed), 1) ]

(* the model.add calls draw the initial weights and the dropout seeds *)
KBuild(k, ls) ==
    [ k EXCEPT !.weights = k.rng, !.rng = Advance(k.rng, NbRandomLayers(ls)) ]

(* fit shuffles the training indices once per epoch and validates at   *)
(* the end of each, the last time after the last update                 *)
KFit(k, nb_epoch) ==
    [ k EXCEPT !.stream = k.rng, !.epochs = nb_epoch, !.rng = Advance(k.rng, nb_epoch),
               !.validated = [ initial |-> k.weights, shuffles |-> k.rng,
                               epochs |-> nb_epoch ] ]

(* evaluate runs the test loop on the model as it is *)
KEvaluate(k) == [ k EXCEPT !.scored = TRUE, !.evaluated = Trained(k) ]

(* show_predictions(np.random.randint(X_test.shape[0])) *)
KShow(k) == [ k EXCEPT !.shown = k.rng, !.rng = Advance(k.rng, 1) ]

(* the per-epoch losses and accuracies fit reports: decided by the      *)
(* initial weights and the shuffles, on given data and settings         *)
History(k) == [ weights |-> k.weights, stream |-> k.stream, epochs |-> k.epochs ]

(* the test score evaluate returns: decided by the trained weights *)
TestScore(k) == [ scored |-> k.scored, weights |-> k.weights, stream |-> k.stream ]

(* ------------------------------------------------------------------ *)
(* output_model.save_model and the files it writes                     *)
(* ------------------------------------------------------------------ *)
SavePath(n) ==
    IF n = "MNIST_cnn" THEN "models/MNIST_cnn_model" ELSE "models/Reuters_MLP_model"

(* the file in the target save_model tests and writes, named as its    *)
(* prompt names it: "[WARNING] MNIST_cnn_model/weights.h5 already       *)
(* exists - overwrite? [y/n]"                                           *)
SavedFile(path) ==
    IF path = "models/MNIST_cnn_model" THEN "MNIST_cnn_model/weights.h5"
    ELSE "Reuters_MLP_model/weights.h5"

Paths == { SavedFile(SavePath(n)) : n \in Notebooks }

Absent == [ exists |-> FALSE, from |-> "", fitted |-> FALSE ]

Previous == [ exists |-> TRUE, from |-> "an earlier run", fitted |-> TRUE ]

Serialized(is_fitted) == [ exists |-> TRUE, from |-> "this run", fitted |-> is_fitted ]

(* the prompt "[WARNING] ... already exists - overwrite? [y/n]" is shown *)
(* exactly when the target exists                                        *)
AsksOverwrite(files, path) == files[path].exists

(* a save_model that serializes whatever the answer *)
SaveModelAnyway(files, path, is_fitted, answer) ==
    [ files EXCEPT ![path] = Serialized(is_fitted) ]

(* save_model(model, path): the files after the call, given the answer   *)
(* to the prompt if one was shown                                        *)
SaveModel(files, path, is_fitted, answer) ==
    IF AsksOverwrite(files, path) /\ answer # "y"
    THEN files
    ELSE [ files EXCEPT ![path] = Serialized(is_fitted) ]

(* ------------------------------------------------------------------ *)
(* The state before the first cell                                     *)
(* ------------------------------------------------------------------ *)
NoSettings == [ batch_size |-> 0, nb_epoch |-> 0, nb_hidden |-> 0, nb_classes |-> 0 ]

NoMatrix == [ shape |-> <<0, 0>>, rows |-> << >> ]

NoData ==
    [ loaded |-> FALSE, X_train |-> NoMatrix, y_train |-> << >>, X_test |-> NoMatrix,
      y_test |-> << >>, Y_train |-> << >>, Y_test |-> << >>,
      seq_train |-> << >>, seq_test |-> << >> ]

NoScore == [ done |-> FALSE, on |-> "", n |-> 0, batch_size |-> 0, counted |-> << >> ]

NoPrompt == [ asked |-> FALSE, answer |-> "", file |-> "" ]

NoSave == [ called |-> FALSE, fitted |-> FALSE, before |-> Absent ]

Init ==
    /\ nb \in Notebooks
    /\ pc = 1
    /\ settings = NoSettings
    /\ raw \in (IF nb = "MNIST_cnn" THEN MnistRaw ELSE ReutersRaw)
    /\ data = NoData
    /\ layers = << >>
    /\ compiled = FALSE
    /\ kernel = BootKernel(0)
    /\ rerun \in { BootKernel(e) : e \in EntropyChoices }
    /\ fitted = NoFit
    /\ score = NoScore
    /\ \E f \in {Absent, Previous} :
          fs = [ p \in Paths |-> IF p = SavedFile(SavePath(nb)) THEN f ELSE Absent ]
    /\ prompt = NoPrompt
    /\ saved = NoSave
    /\ trace = << >>
    /\ err = ""

(* the cells with every exception caught and ignored *)
RunsAfterRaise(name) == Cell = name

(* a cell runs when the cells above it ran without raising *)
Runs(name) == err = "" /\ Cell = name

(* what a call into the framework may raise for a reason outside the    *)
(* notebook (no dataset file and no network, no memory left, no models/ *)
(* directory), "" when it returns; no call stands in a try statement    *)
MayRaise(call) ==
    { "", IF call \in {"load_data", "save_model"} THEN "IOError" ELSE "MemoryError" }

(* ------------------------------------------------------------------ *)
(* The cells                                                           *)
(* ------------------------------------------------------------------ *)
(* the values the settings cell may be edited to, besides the ones it has *)
MnistHiddenChoices == {mnist_nb_hidden} \cup 1..MaxHidden
ReutersHiddenChoices == {reuters_nb_hidden} \cup 0..MaxHidden
MnistBatchChoices == {mnist_batch_size} \cup 1..MaxBatch
ReutersBatchChoices == {reuters_batch_size} \cup 1..MaxBatch

CellImports ==
    /\ Runs("imports")
    /\ kernel' = KSeed(kernel)
    /\ rerun' = KSeed(rerun)
    /\ pc' = pc + 1
    /\ UNCHANGED <<nb, settings, raw, data, layers, compiled, fitted, score, fs,
                   prompt, saved, trace, err>>

CellSettingsMnist ==
    /\ nb = "MNIST_cnn"
    /\ Runs("settings")
    /\ \E h \in MnistHiddenChoices, b \in MnistBatchChoices :
          settings' = [ batch_size |-> b, nb_epoch |-> mnist_nb_epoch,
                        nb_hidden |-> h, nb_classes |-> mnist_nb_classes ]
    /\ pc' = pc + 1
    /\ UNCHANGED <<nb, raw, data, layers, compiled, kernel, rerun, fitted, score, fs,
                   prompt, saved, trace, err>>

CellSettingsReuters ==
    /\ nb = "Reuters_MLP"
    /\ Runs("settings")
    /\ \E h \in ReutersHiddenChoices, b \in ReutersBatchChoices :
          settings' = [ batch_size |-> b, nb_epoch |-> reuters_nb_epoch,
                        nb_hidden |-> h, nb_classes |-> 0 ]
    /\ pc' = pc + 1
    /\ UNCHANGED <<nb, raw, data, layers, compiled, kernel, rerun, fitted, score, fs,
                   prompt, saved, trace, err>>

(* MNIST_cnn, "Get the training data" *)
MnistLoadRaises(r, nb_classes) ==
    IF \/ ReshapeRaises(r.X_train, <<r.X_train.shape[1], 1, img_rows, img_cols>>)
       \/ ReshapeRaises(r.X_test, <<r.X_test.shape[1], 1, img_rows, img_cols>>)
    THEN "ValueError"
    ELSE IF ToCategoricalRaises(r.y_train, nb_classes) \/ ToCategoricalRaises(r.y_test, nb_classes)
    THEN "IndexError"
    ELSE ""

(* the globals the cell has assigned when it ends or raises: a statement *)
(* that raises assigns nothing, the statements above it have run         *)
MnistLoaded(r, nb_classes) ==
    LET train_shape  == <<r.X_train.shape[1], 1, img_rows, img_cols>>
        test_shape   == <<r.X_test.shape[1], 1, img_rows, img_cols>>
        train_raises == ReshapeRaises(r.X_train, train_shape)
        test_raises  == ReshapeRaises(r.X_test, test_shape)
        reshaped     == ~train_raises /\ ~test_raises
        Y_train_done == reshaped /\ ~ToCategoricalRaises(r.y_train, nb_classes)
        Y_test_done  == Y_train_done /\ ~ToCategoricalRaises(r.y_test, nb_classes)
    IN  [ loaded |-> Y_test_done,
          X_train |-> IF train_raises THEN r.X_train
                      ELSE IF test_raises THEN Reshape(r.X_train, train_shape)
                      ELSE MnistPreprocess(r.X_train),
          y_train |-> r.y_train,
          X_test  |-> IF reshaped THEN MnistPreprocess(r.X_test) ELSE r.X_test,
          y_test  |-> r.y_test,
          Y_train |-> IF Y_train_done THEN ToCategorical(r.y_train, nb_classes) ELSE << >>,
          Y_test  |-> IF Y_test_done THEN ToCategorical(r.y_test, nb_classes) ELSE << >>,
          seq_train |-> << >>, seq_test |-> << >> ]

CellLoadMnist ==
    /\ nb = "MNIST_cnn"
    /\ Runs("load")
    /\ \E fault \in MayRaise("load_data") :
          IF fault # ""
          THEN /\ err' = fault
               /\ UNCHANGED <<data, trace>>
          ELSE /\ err' = MnistLoadRaises(raw, settings.nb_classes)
               /\ data' = MnistLoaded(raw, settings.nb_classes)
               /\ trace' = Append(trace, "load")
    /\ pc' = IF err' = "" THEN pc + 1 ELSE pc
    /\ UNCHANGED <<nb, settings, raw, layers, compiled, kernel, rerun, fitted, score,
                   fs, prompt, saved>>

(* Reuters_MLP, "Get the data" *)
(* the globals the cell has assigned when it ends or raises: a statement *)
(* that raises assigns nothing, the statements above it have run         *)
ReutersLoaded(corpus, nb_words) ==
    LET d == LoadReuters(corpus, nb_words)
        nb_classes == SeqMax(d.y_train) + 1
        Y_train_done == ~ToCategoricalRaises(d.y_train, nb_classes)
        Y_test_done  == Y_train_done /\ ~ToCategoricalRaises(d.y_test, nb_classes)
    IN  [ loaded |-> Y_test_done,
          X_train |-> SequencesToMatrix(d.X_train, nb_words), y_train |-> d.y_train,
          X_test  |-> SequencesToMatrix(d.X_test, nb_words),  y_test  |-> d.y_test,
          Y_train |-> IF Y_train_done THEN ToCategorical(d.y_train, nb_classes) ELSE << >>,
          Y_test  |-> IF Y_test_done THEN ToCategorical(d.y_test, nb_classes) ELSE << >>,
          seq_train |-> d.X_train, seq_test |-> d.X_test ]

ReutersLoadRaises(corpus, nb_words) ==
    LET d == LoadReuters(corpus, nb_words)
        nb_classes == SeqMax(d.y_train) + 1
    IN  IF ToCategoricalRaises(d.y_train, nb_classes) \/ ToCategoricalRaises(d.y_test, nb_classes)
        THEN "IndexError"
        ELSE ""

CellLoadReuters ==
    /\ nb = "Reuters_MLP"
    /\ Runs("load")
    /\ \E fault \in MayRaise("load_data") :
          IF fault # ""
          THEN /\ err' = fault
               /\ UNCHANGED <<kernel, rerun, settings, data, trace>>
          ELSE /\ err' = ReutersLoadRaises(raw, max_words)
               /\ kernel' = KLoadReuters(kernel)
               /\ rerun' = KLoadReuters(rerun)
               /\ settings' = [ settings EXCEPT
                      !.nb_classes = SeqMax(LoadReuters(raw, max_words).y_train) + 1 ]
               /\ data' = ReutersLoaded(raw, max_words)
               /\ trace' = Append(trace, "load")
    /\ pc' = IF err' = "" THEN pc + 1 ELSE pc
    /\ UNCHANGED <<nb, raw, layers, compiled, fitted, score, fs, prompt, saved>>

(* "Setup the model" / "Build the Neural Network": Sequential(), the     *)
(* model.add calls, model.compile                                        *)
CellBuildMnist ==
    /\ nb = "MNIST_cnn"
    /\ Runs("build")
    /\ layers' = MnistLayers(settings.nb_hidden, settings.nb_classes)
    /\ compiled' = TRUE
    /\ kernel' = KBuild(kernel, layers')
    /\ rerun' = KBuild(rerun, layers')
    /\ trace' = trace \o <<"build", "compile">>
    /\ pc' = pc + 1
    /\ UNCHANGED <<nb, settings, raw, data, fitted, score, fs, prompt, saved, err>>

CellBuildReuters ==
    /\ nb = "Reuters_MLP"
    /\ Runs("build")
    /\ layers' = ReutersLayers(settings.nb_hidden, settings.nb_classes)
    /\ compiled' = TRUE
    /\ kernel' = KBuild(kernel, layers')
    /\ rerun' = KBuild(rerun, layers')
    /\ trace' = trace \o <<"build", "compile">>
    /\ pc' = pc + 1
    /\ UNCHANGED <<nb, settings, raw, data, fitted, score, fs, prompt, saved, err>>

(* "Fit the model" *)
CellFitMnist ==
    /\ nb = "MNIST_cnn"
    /\ Runs("fit")
    /\ \E fault \in MayRaise("fit") :
          IF fault # "" \/ ModelRaises(layers, compiled, data.Y_train)
          THEN /\ err' = (IF fault # "" THEN fault ELSE "Exception")
               /\ UNCHANGED <<fitted, kernel, rerun, trace, pc>>
          ELSE /\ fitted' = FitWithValidationData(Len(data.Y_train), Len(data.Y_test),
                                                  settings.batch_size, settings.nb_epoch)
               /\ kernel' = KFit(kernel, settings.nb_epoch)
               /\ rerun' = KFit(rerun, settings.nb_epoch)
               /\ trace' = Append(trace, "fit")
               /\ pc' = pc + 1
               /\ UNCHANGED err
    /\ UNCHANGED <<nb, settings, raw, data, layers, compiled, score, fs, prompt, saved>>

CellFitReuters ==
    /\ nb = "Reuters_MLP"
    /\ Runs("fit")
    /\ \E fault \in MayRaise("fit") :
          IF fault # "" \/ ModelRaises(layers, compiled, data.Y_train)
          THEN /\ err' = (IF fault # "" THEN fault ELSE "Exception")
               /\ UNCHANGED <<fitted, kernel, rerun, trace, pc>>
          ELSE /\ fitted' = FitWithValidationSplit(Len(data.Y_train),
                                                   settings.batch_size, settings.nb_epoch)
               /\ kernel' = KFit(kernel, settings.nb_epoch)
               /\ rerun' = KFit(rerun, settings.nb_epoch)
               /\ trace' = Append(trace, "fit")
               /\ pc' = pc + 1
               /\ UNCHANGED err
    /\ UNCHANGED <<nb, settings, raw, data, layers, compiled, score, fs, prompt, saved>>

(* the batch size of the evaluate call: MNIST_cnn passes none,          *)
(* Reuters_MLP passes batch_size=batch_size                             *)
EvaluateBatchSize(n, batch_size) ==
    IF n = "MNIST_cnn" THEN evaluate_batch_size ELSE batch_size

(* score = model.evaluate(X_test, Y_test, ...) *)
CellEvaluate ==
    /\ Runs("evaluate")
    /\ \E fault \in MayRaise("evaluate") :
          IF fault # "" \/ ModelRaises(layers, compiled, data.Y_test)
          THEN /\ err' = (IF fault # "" THEN fault ELSE "Exception")
               /\ UNCHANGED <<score, kernel, rerun, trace, pc>>
          ELSE /\ score' =
                    [ done |-> TRUE, on |-> "X_test", n |-> Len(data.Y_test),
                      batch_size |-> EvaluateBatchSize(nb, settings.batch_size),
                      counted |-> TestLoop(Len(data.Y_test),
                                           EvaluateBatchSize(nb, settings.batch_size)) ]
               /\ kernel' = KEvaluate(kernel)
               /\ rerun' = KEvaluate(rerun)
               /\ trace' = Append(trace, "evaluate")
               /\ pc' = pc + 1
               /\ UNCHANGED err
    /\ UNCHANGED <<nb, settings, raw, data, layers, compiled, fitted, fs, prompt, saved>>

(* cells that only import or define: the plotting imports, the          *)
(* definition of show_predictions, "import output_model"                *)
CellDefinitions ==
    /\ \/ Runs("plot_imports")
       \/ Runs("def_show_predictions")
       \/ Runs("import_output_model")
    /\ pc' = pc + 1
    /\ UNCHANGED <<nb, settings, raw, data, layers, compiled, kernel, rerun, fitted,
                   score, fs, prompt, saved, trace, err>>

(* show_predictions(np.random.randint(X_test.shape[0])) *)
CellShowPredictions ==
    /\ Runs("show_predictions")
    /\ kernel' = KShow(kernel)
    /\ rerun' = KShow(rerun)
    /\ pc' = pc + 1
    /\ UNCHANGED <<nb, settings, raw, data, layers, compiled, fitted, score, fs,
                   prompt, saved, trace, err>>

(* output_model.save_model(model, 'models/..._model') *)
CellSave ==
    /\ Runs("save")
    /\ ~saved.called
    /\ \E fault \in MayRaise("save_model") :
          IF fault # ""
          THEN /\ err' = fault
               /\ UNCHANGED <<prompt, fs, saved, trace, pc>>
          ELSE /\ saved' = [ called |-> TRUE, fitted |-> fitted.done,
                             before |-> fs[SavedFile(SavePath(nb))] ]
               /\ trace' = Append(trace, "save")
               /\ IF AsksOverwrite(fs, SavedFile(SavePath(nb)))
                  THEN /\ prompt' = [ asked |-> TRUE, answer |-> "",
                                      file |-> SavedFile(SavePath(nb)) ]
                       /\ UNCHANGED <<fs, pc>>
                  ELSE /\ fs' = SaveModel(fs, SavedFile(SavePath(nb)), fitted.done, "")
                       /\ pc' = pc + 1
                       /\ UNCHANGED prompt
               /\ UNCHANGED err
    /\ UNCHANGED <<nb, settings, raw, data, layers, compiled, kernel, rerun, fitted,
                   score>>

(* the question is open: save_model waits for what is typed *)
PromptOpen == prompt.asked /\ prompt.answer = ""

(* 'y' or 'n' is typed at the prompt and save_model goes on *)
AnswerPrompt ==
    /\ Runs("save")
    /\ PromptOpen
    /\ \E answer \in {"y", "n"} :
          /\ prompt' = [ prompt EXCEPT !.answer = answer ]
          /\ fs' = SaveModel(fs, prompt.file, fitted.done, answer)
    /\ pc' = pc + 1
    /\ UNCHANGED <<nb, settings, raw, data, layers, compiled, kernel, rerun, fitted,
                   score, saved, trace, err>>

(* the kernel is interrupted while the question is open *)
InterruptPrompt ==
    /\ Runs("save")
    /\ PromptOpen
    /\ err' = "KeyboardInterrupt"
    /\ UNCHANGED <<nb, pc, settings, raw, data, layers, compiled, kernel, rerun, fitted,
                   score, fs, prompt, saved, trace>>

Next ==
    \/ CellImports
    \/ CellSettingsMnist
    \/ CellSettingsReuters
    \/ CellLoadMnist
    \/ CellLoadReuters
    \/ CellBuildMnist
    \/ CellBuildReuters
    \/ CellFitMnist
    \/ CellFitReuters
    \/ CellEvaluate
    \/ CellDefinitions
    \/ CellShowPredictions
    \/ CellSave
    \/ AnswerPrompt
    \/ InterruptPrompt

Spec == Init /\ [][Next]_vars

(* ================================================================== *)
(* Properties                                                          *)
(* ================================================================== *)
IsPrefix(a, b) == Len(a) <= Len(b) /\ a = SubSeq(b, 1, Len(a))

(* the steps of a notebook, in the order the spec gives them *)
ExpectedSteps == << "load", "build", "compile", "fit", "evaluate", "save" >>

(* C1: in a top-to-bottom execution of either notebook the steps load,    *)
(* build and compile, fit, evaluate, save happen in this order, none      *)
(* twice; a run that reaches the end has done each exactly once; and      *)
(* save_model is never handed a model that has not been fitted.           *)
C1_StepsInOrder ==
    /\ IsPrefix(trace, ExpectedSteps)
    /\ (Done => trace = ExpectedSteps)
    /\ (saved.called => saved.fitted /\ fitted.done /\ compiled)
    /\ (fitted.done => compiled)
    /\ (score.done => fitted.done)

C1_Witness ==
    /\ Done
    /\ saved.called
    /\ trace = ExpectedSteps

(* C2: save_model asks for an overwrite confirmation exactly when the     *)
(* target exists; while the question is open, and when it is answered     *)
(* 'n', the file on disk stays as it was; a write without a prompt        *)
(* happens only when the target did not exist.                            *)
C2_OverwritePrompt ==
    saved.called =>
        /\ prompt.asked <=> saved.before.exists
        /\ (prompt.asked /\ prompt.answer = "n") => fs[SavedFile(SavePath(nb))] = saved.before
        /\ PromptOpen => fs[SavedFile(SavePath(nb))] = saved.before /\ ~Done
        /\ prompt.asked => prompt.file = SavedFile(SavePath(nb))
        /\ (prompt.asked /\ prompt.answer = "y") =>
              fs[SavedFile(SavePath(nb))] = Serialized(saved.fitted)
        /\ (fs[SavedFile(SavePath(nb))] # saved.before /\ ~prompt.asked) => ~saved.before.exists
        /\ ~saved.before.exists => fs[SavedFile(SavePath(nb))] = Serialized(saved.fitted)
        /\ \A p \in Paths \ {SavedFile(SavePath(nb))} : fs[p] = Absent

C2_Witness ==
    /\ saved.called
    /\ prompt.asked
    /\ prompt.answer = "n"
    /\ prompt.file = "MNIST_cnn_model/weights.h5"
    /\ Done
    /\ fs[SavedFile(SavePath(nb))] = Previous

(* C3: two top-to-bottom executions of a notebook on the same dataset,    *)
(* whatever state their kernels' generators started in, consume the       *)
(* random stream identically from the seeding on and report the same      *)
(* per-epoch metrics and the same test score.                             *)
C3_Reproducible ==
    /\ (pc > 1 => kernel.rng = rerun.rng)
    /\ (fitted.done => History(kernel) = History(rerun))
    /\ (score.done => TestScore(kernel) = TestScore(rerun))
    /\ (Done => kernel.shown = rerun.shown)

C3_Witness ==
    /\ Done
    /\ score.done
    /\ kernel.boot # rerun.boot
    /\ kernel.rng.kind = "seeded"
    /\ kernel.rng.pos > 0

(* the positions of the layers of one type *)
Positions(ls, type) == { i \in DOMAIN ls : ls[i].type = type }

(* the Dense layers but the last one, which is the output layer *)
HiddenDense(ls) ==
    { i \in Positions(ls, "Dense") : \E j \in Positions(ls, "Dense") : j > i }

(* the hidden blocks Dense(nb_dense) -> relu -> Dropout(p_dropout) *)
HiddenBlocks(ls) ==
    { i \in HiddenDense(ls) :
        /\ ls[i].output_dim = nb_dense
        /\ i + 2 <= Len(ls)
        /\ ls[i + 1] = Activation("relu")
        /\ ls[i + 2] = Dropout(p_dropout) }

(* C4, as claimed: for every nb_hidden the Reuters model holds exactly    *)
(* nb_hidden hidden blocks before the final Dense(nb_classes) -> softmax. *)
C4_HiddenBlocksAsClaimed ==
    (nb = "Reuters_MLP" /\ compiled) =>
        /\ Cardinality(HiddenBlocks(layers)) = settings.nb_hidden
        /\ layers[Len(layers) - 1] = Dense(settings.nb_classes, NoShape)
        /\ layers[Len(layers)] = Activation("softmax")

(* C5, as claimed: fit performs nb_epoch * sample_size / batch_size       *)
(* gradient updates, sample_size the number of samples it trains on.      *)
C5_UpdatesAsClaimed ==
    fitted.done =>
        fitted.updates * settings.batch_size
            = settings.nb_epoch * Cardinality(fitted.train)

(* C5, amended: every epoch is one full pass over the samples fit trains  *)
(* on, in consecutive batches of batch_size with a last batch of what is  *)
(* left, so fit performs nb_epoch * ceil(sample_size / batch_size)        *)
(* updates.                                                               *)
C5_UpdatesCeiling ==
    fitted.done =>
        LET n  == Cardinality(fitted.train)
            bs == settings.batch_size
            q  == Len(fitted.batches)
        IN  /\ fitted.updates = settings.nb_epoch * q
            /\ (q - 1) * bs < n
            /\ n <= q * bs
            /\ UNION { BatchSamples(fitted.batches[i]) : i \in 1..q } = fitted.train
            /\ \A i \in 1..q : Cardinality(BatchSamples(fitted.batches[i])) <= bs
            /\ \A i \in 1..(q - 1) : Cardinality(BatchSamples(fitted.batches[i])) = bs
            /\ \A i, j \in 1..q :
                  i # j => BatchSamples(fitted.batches[i]) \cap BatchSamples(fitted.batches[j]) = {}
            /\ settings.nb_epoch = (IF nb = "MNIST_cnn" THEN mnist_nb_epoch ELSE reuters_nb_epoch)

(* a fit whose last batch is a partial one *)
C5_Witness ==
    /\ fitted.done
    /\ Len(fitted.batches) > 1
    /\ Cardinality(fitted.train) % settings.batch_size # 0

(* C6, as claimed: in the MNIST notebook the number of hidden Dense       *)
(* layers between Flatten and the output layer is nb_hidden.              *)
C6_HiddenCountAsClaimed ==
    (nb = "MNIST_cnn" /\ compiled) =>
        Cardinality({ i \in HiddenDense(layers) :
                        \E f \in Positions(layers, "Flatten") : f < i })
            = settings.nb_hidden

(* C6, amended: nb_hidden is the number of units of the one hidden Dense  *)
(* layer: whatever nb_hidden is, exactly one hidden Dense layer stands    *)
(* between Flatten and the output layer, and it has nb_hidden units.      *)
C6_HiddenSize ==
    (nb = "MNIST_cnn" /\ compiled) =>
        /\ Cardinality(HiddenDense(layers)) = 1
        /\ \A i \in HiddenDense(layers) :
              /\ layers[i].output_dim = settings.nb_hidden
              /\ \E f \in Positions(layers, "Flatten") : f < i
        /\ settings.nb_hidden \in MnistHiddenChoices

C6_Witness ==
    /\ nb = "MNIST_cnn"
    /\ compiled
    /\ settings.nb_hidden = mnist_nb_hidden
    /\ Cardinality(HiddenDense(layers)) = 1

(* C7: the MNIST model is the documented sequence: the image enters the   *)
(* first convolution, a second convolution follows, exactly one pooling   *)
(* layer comes after both convolutions and none between them, then one    *)
(* fully-connected hidden layer and the fully-connected output layer;     *)
(* Flatten occurs once, after pooling and its dropout, before the first   *)
(* Dense layer.                                                           *)
C7_LayerSequence ==
    (nb = "MNIST_cnn" /\ compiled) =>
        LET conv == Positions(layers, "Convolution2D")
            pool == Positions(layers, "MaxPooling2D")
            flat == Positions(layers, "Flatten")
            dense == Positions(layers, "Dense")
            drop == Positions(layers, "Dropout")
        IN  /\ Cardinality(conv) = 2
            /\ 1 \in conv
            /\ layers[1].input_shape = <<1, img_rows, img_cols>>
            /\ Cardinality(pool) = 1
            /\ \A p \in pool : \A c \in conv : c < p
            /\ Cardinality(flat) = 1
            /\ \A f \in flat :
                  /\ \A p \in pool : p < f
                  /\ \E d \in drop : d < f /\ \A p \in pool : p < d
                  /\ \A d \in dense : f < d
                  /\ \A c \in conv : c < f
            /\ Cardinality(dense) = 2
            /\ Cardinality(HiddenDense(layers)) = 1
            /\ layers[Len(layers)] = Activation("softmax")
            /\ layers[Len(layers) - 1].type = "Dense"

C7_Witness ==
    /\ nb = "MNIST_cnn"
    /\ compiled
    /\ Positions(layers, "MaxPooling2D") = {5}
    /\ Positions(layers, "Flatten") = {7}

(* C8: the two Convolution2D layers of the MNIST model have the same      *)
(* configuration: nb_filters filters, an nb_conv x nb_conv kernel, border *)
(* mode 'valid', each followed by a relu activation.                      *)
C8_IdenticalConvolutions ==
    (nb = "MNIST_cnn" /\ compiled) =>
        /\ Cardinality(Positions(layers, "Convolution2D")) = 2
        /\ \A c \in Positions(layers, "Convolution2D") :
              /\ layers[c].nb_filter = nb_filters
              /\ layers[c].nb_row = nb_conv
              /\ layers[c].nb_col = nb_conv
              /\ layers[c].border_mode = "valid"
              /\ c + 1 <= Len(layers)
              /\ layers[c + 1] = Activation("relu")

C8_Witness ==
    /\ nb = "MNIST_cnn"
    /\ compiled
    /\ Positions(layers, "Convolution2D") = {1, 3}
    /\ layers[3].input_shape = NoShape
    /\ layers[1].input_shape # NoShape

(* C9: in both notebooks the last Dense layer has nb_classes units and    *)
(* softmax follows it, and the label matrices Y_train and Y_test are      *)
(* nb_classes wide, so the width of the model's output is the width of    *)
(* the labels: 10 for MNIST, max(y_train) + 1 for Reuters, which is 46    *)
(* when the training topics go up to 45.                                  *)
C9_OutputMatchesLabels ==
    /\ data.loaded =>
          /\ Width(data.Y_train) = settings.nb_classes
          /\ Width(data.Y_test) = settings.nb_classes
          /\ Len(data.Y_train) = Len(data.y_train)
          /\ Len(data.Y_test) = Len(data.y_test)
          /\ nb = "MNIST_cnn" => settings.nb_classes = 10
          /\ nb = "Reuters_MLP" => settings.nb_classes = SeqMax(data.y_train) + 1
          /\ (nb = "Reuters_MLP" /\ \E i \in DOMAIN data.y_train : data.y_train[i] = 45)
                => settings.nb_classes = 46
    /\ compiled =>
          /\ layers[Len(layers)] = Activation("softmax")
          /\ layers[Len(layers) - 1].type = "Dense"
          /\ layers[Len(layers) - 1].output_dim = settings.nb_classes
          /\ OutputDim(layers) = Width(data.Y_train)
          /\ OutputDim(layers) = Width(data.Y_test)
    /\ (fitted.done \/ score.done) => OutputDim(layers) = settings.nb_classes

C9_Witness ==
    /\ nb = "Reuters_MLP"
    /\ fitted.done
    /\ score.done
    /\ settings.nb_classes = 46
    /\ OutputDim(layers) = 46

(* an entry of a matrix kept by its nonzero entries *)
Entry(M, i, j) == IF j \in DOMAIN M.rows[i] THEN M.rows[i][j] ELSE 0

Elements(q) == { q[i] : i \in DOMAIN q }

(* X is the yes/no matrix of the sequences: max_words columns, entry     *)
(* (i, j) 1 when sequence i holds word j and 0 otherwise                 *)
IsIndicatorOf(X, seqs) ==
    /\ X.shape = <<Len(seqs), max_words>>
    /\ Len(X.rows) = Len(seqs)
    /\ \A i \in DOMAIN X.rows :
          /\ DOMAIN X.rows[i] \subseteq 0..(max_words - 1)
          /\ \A j \in DOMAIN X.rows[i] : X.rows[i][j] \in {0, 1}
          /\ \A j \in Elements(seqs[i]) : j < max_words /\ Entry(X, i, j) = 1
          /\ \A j \in DOMAIN X.rows[i] : Entry(X, i, j) = 1 => j \in Elements(seqs[i])

(* C10: in the Reuters notebook X_train and X_test have exactly max_words *)
(* columns with entries in {0, 1} that say whether the article holds the  *)
(* word, every word index load_data(nb_words=max_words) keeps is below    *)
(* max_words, and the first Dense layer's input_shape is (max_words,).    *)
C10_IndicatorInputs ==
    nb = "Reuters_MLP" =>
        /\ data.loaded =>
              /\ IsIndicatorOf(data.X_train, data.seq_train)
              /\ IsIndicatorOf(data.X_test, data.seq_test)
        /\ compiled =>
              /\ layers[1].type = "Dense"
              /\ layers[1].input_shape = <<max_words>>

(* an article that names a word twice and one with a word beyond the     *)
(* max_words most common                                                 *)
C10_Witness ==
    /\ nb = "Reuters_MLP"
    /\ compiled
    /\ data.loaded
    /\ \E i \in DOMAIN data.seq_train :
          /\ Len(data.seq_train[i]) > Cardinality(Elements(data.seq_train[i]))
          /\ Entry(data.X_train, i, max_words - 1) = 1
    /\ \E i \in DOMAIN data.seq_train : \E k \in DOMAIN data.seq_train[i] :
          /\ data.seq_train[i][k] = oov_char
          /\ raw[i].words[k - 1] + index_from >= max_words

(* ------------------------------------------------------------------ *)
(* The sizes the notebooks' recorded outputs show                      *)
(* ------------------------------------------------------------------ *)
reuters_train_sequences == 8982
reuters_test_sequences == 2246
reuters_fit_samples == 8083
reuters_validation_samples == 899

(* the fit cell of Reuters_MLP on the recorded 8982 training sequences *)
RecordedReutersFit ==
    FitWithValidationSplit(reuters_train_sequences, reuters_batch_size, reuters_nb_epoch)

(* the recorded "Train on 8083 samples, validate on 899 samples" and    *)
(* "8982 train sequences / 2246 test sequences" are what the splits give *)
RecordedSplitAgrees ==
    /\ Cardinality(RecordedReutersFit.train) = reuters_fit_samples
    /\ Cardinality(RecordedReutersFit.val) = reuters_validation_samples
    /\ RecordedReutersFit.train \cap RecordedReutersFit.val = {}
    /\ RecordedReutersFit.train \cup RecordedReutersFit.val = 1..reuters_train_sequences
    /\ TestSplitAt(reuters_train_sequences + reuters_test_sequences) = reuters_train_sequences

(* the places in the corpus of the sequences load_data returns as test set *)
TestPlaces(corpus) == (TestSplitAt(Len(corpus)) + 1)..Len(corpus)

(* C11: in the Reuters notebook fit with validation_split=0.1 cuts the    *)
(* training sequences into a training and a validation part that are     *)
(* disjoint and together are all of them (8083 and 899 of the recorded    *)
(* 8982); the sequences of the test set, the last fifth of the corpus     *)
(* (2246 recorded), are in neither part and are used only by evaluate.    *)
C11_ValidationSplit ==
    /\ RecordedSplitAgrees
    /\ (nb = "Reuters_MLP" /\ data.loaded) =>
          /\ Len(data.seq_train) + Len(data.seq_test) = Len(raw)
          /\ Len(data.Y_train) = Len(data.seq_train)
          /\ Len(data.Y_test) = Len(data.seq_test)
          /\ data.X_test.shape[1] = Cardinality(TestPlaces(raw))
          /\ \A i \in DOMAIN data.seq_test :
                data.y_test[i] = raw[TestSplitAt(Len(raw)) + i].label
          /\ \A i \in DOMAIN data.seq_train : data.y_train[i] = raw[i].label
    /\ (nb = "Reuters_MLP" /\ fitted.done) =>
          /\ fitted.val_from = "X_train"
          /\ fitted.train \cap fitted.val = {}
          /\ fitted.train \cup fitted.val = 1..Len(data.Y_train)
          /\ Cardinality(fitted.train) + Cardinality(fitted.val) = Len(data.Y_train)
          /\ (fitted.train \cup fitted.val) \cap TestPlaces(raw) = {}
          /\ \A i \in fitted.train : \A j \in fitted.val : i < j
          /\ 10 * Cardinality(fitted.train) <= 9 * Len(data.Y_train)
          /\ 9 * Len(data.Y_train) < 10 * (Cardinality(fitted.train) + 1)
    /\ (nb = "Reuters_MLP" /\ score.done) =>
          /\ score.on = "X_test"
          /\ score.n = Cardinality(TestPlaces(raw))
          /\ score.batch_size = settings.batch_size

(* a fit that held out a validation sample, followed by evaluate *)
C11_Witness ==
    /\ nb = "Reuters_MLP"
    /\ fitted.done
    /\ score.done
    /\ fitted.train # {}
    /\ fitted.val # {}
    /\ Cardinality(fitted.train) > Cardinality(fitted.val)

(* ------------------------------------------------------------------ *)
(* A call that raises                                                  *)
(* ------------------------------------------------------------------ *)
(* the steps a cell performs *)
CellSteps(name) ==
    IF name = "build" THEN << "build", "compile" >>
    ELSE IF name \in {"load", "fit", "evaluate", "save"} THEN << name >>
    ELSE << >>

RECURSIVE StepsBefore(_, _)
(* the steps of the cells above cell p of notebook n *)
StepsBefore(n, p) ==
    IF p <= 1 THEN << >> ELSE StepsBefore(n, p - 1) \o CellSteps(Cells(n)[p - 1])

(* the cells that call load_data, fit, evaluate, save_model *)
RaisingCells == {"load", "fit", "evaluate", "save"}

Persisted == fs[SavedFile(SavePath(nb))].from = "this run"

(* C12: an error raised by load_data, fit, evaluate or save_model is not  *)
(* caught: the run stops at the cell that raised, the steps done are      *)
(* those of the cells above it, with the call of the cell itself when it  *)
(* had begun, and no step of a later cell is done; in particular no       *)
(* model is saved when fit or evaluate failed.                            *)
C12_ErrorsAbort ==
    /\ IsPrefix(StepsBefore(nb, pc), trace)
    /\ Done => trace = StepsBefore(nb, pc)
    /\ ~Done => IsPrefix(trace, StepsBefore(nb, pc + 1))
    /\ (err = "" /\ ~PromptOpen) => trace = StepsBefore(nb, pc)
    /\ err \in {"IOError", "MemoryError", "Exception"} => trace = StepsBefore(nb, pc)
    /\ err # "" =>
          /\ ~Done
          /\ Cell \in RaisingCells
          /\ Cell = "load" => ~data.loaded /\ ~compiled /\ layers = << >>
          /\ Cell \in {"load", "fit"} => ~fitted.done /\ kernel.epochs = 0
          /\ Cell \in {"load", "fit", "evaluate"} =>
                /\ ~score.done
                /\ ~kernel.scored
                /\ ~saved.called
                /\ ~prompt.asked
                /\ ~Persisted
          /\ Cell = "save" => fitted.done /\ score.done
    /\ Persisted => err = "" /\ fitted.done /\ score.done /\ Done

(* evaluate raised after a fit that succeeded: nothing is saved over the *)
(* file of an earlier run                                                *)
C12_Witness ==
    /\ err = "MemoryError"
    /\ Cell = "evaluate"
    /\ fitted.done
    /\ ~saved.called
    /\ fs[SavedFile(SavePath(nb))] = Previous

(* ------------------------------------------------------------------ *)
(* The test score and the last validation of fit                       *)
(* ------------------------------------------------------------------ *)
mnist_test_samples == 10000

(* the recorded last epoch "val_loss: 0.0388 - val_acc: 0.9877", in     *)
(* units of 0.0001, and the recorded "Test score: 0.0387651254472",     *)
(* "Test accuracy: 0.9877", cut to units of 0.0000001                   *)
recorded_val_loss == 388
recorded_val_acc == 9877
recorded_test_score == 387651
recorded_test_accuracy == 9877000

(* the progress bar prints four decimals *)
FourDecimals(x) == (x + 500) \div 1000

(* on the recorded 10000 test samples the validation of fit, in batches *)
(* of batch_size, and evaluate, in batches of its default size, both    *)
(* count every sample once; the recorded numbers agree as printed       *)
RecordedEvaluateAgrees ==
    /\ TestLoop(mnist_test_samples, mnist_batch_size)
          = TestLoop(mnist_test_samples, evaluate_batch_size)
    /\ TestLoop(mnist_test_samples, evaluate_batch_size)
          = [ i \in 1..mnist_test_samples |-> 1 ]
    /\ mnist_test_samples % mnist_batch_size # 0
    /\ mnist_batch_size # evaluate_batch_size
    /\ FourDecimals(recorded_test_score) = recorded_val_loss
    /\ FourDecimals(recorded_test_accuracy) = recorded_val_acc

(* C13: in the MNIST notebook fit validates on the test set and nothing   *)
(* changes the model between the end of fit and evaluate, so evaluate     *)
(* measures the same weights on the same samples, each counted once, as   *)
(* the validation of the last epoch: its loss and accuracy are the last   *)
(* val_loss and val_acc (recorded 0.0388 / 0.9877 and 0.0387651254472 /   *)
(* 0.9877).                                                               *)
C13_ScoreIsLastValidation ==
    /\ RecordedEvaluateAgrees
    /\ (nb = "MNIST_cnn" /\ fitted.done) =>
          /\ fitted.val_from = "X_test"
          /\ fitted.val = 1..Len(data.Y_test)
          /\ fitted.val_counted = [ i \in 1..Len(data.Y_test) |-> 1 ]
          /\ kernel.validated = Trained(kernel)
          /\ kernel.validated.epochs = mnist_nb_epoch
    /\ (nb = "MNIST_cnn" /\ score.done) =>
          /\ score.on = fitted.val_from
          /\ score.n = Cardinality(fitted.val)
          /\ score.counted = fitted.val_counted
          /\ score.batch_size = evaluate_batch_size
          /\ kernel.evaluated = kernel.validated
          /\ rerun.evaluated = rerun.validated

C13_Witness ==
    /\ nb = "MNIST_cnn"
    /\ score.done
    /\ fitted.val # {}
    /\ kernel.evaluated = kernel.validated
    /\ kernel.evaluated.epochs = mnist_nb_epoch
    /\ kernel.evaluated.initial.kind = "seeded"
    /\ settings.batch_size # evaluate_batch_size

(* ------------------------------------------------------------------ *)
(* The labels and nb_classes                                           *)
(* ------------------------------------------------------------------ *)
(* C14, as claimed: in the Reuters notebook nb_classes = max(y_train) + 1 *)
(* is greater than every label of y_train and of y_test, so neither       *)
(* to_categorical call indexes outside its nb_classes columns, whatever   *)
(* split load_data returns.                                               *)
C14_LabelsBelowNbClasses ==
    (nb = "Reuters_MLP" /\ settings.nb_classes # 0) =>
        LET d == LoadReuters(raw, max_words)
        IN  /\ settings.nb_classes = SeqMax(d.y_train) + 1
            /\ \A i \in DOMAIN d.y_train : d.y_train[i] < settings.nb_classes
            /\ \A i \in DOMAIN d.y_test : d.y_test[i] < settings.nb_classes
            /\ ~ToCategoricalRaises(d.y_train, settings.nb_classes)
            /\ ~ToCategoricalRaises(d.y_test, settings.nb_classes)
            /\ err # "IndexError"

(* ------------------------------------------------------------------ *)
(* The shapes along the MNIST model                                    *)
(* ------------------------------------------------------------------ *)
(* a convolution that pads its input: the length stays *)
ConvLengthSame(n, k, border_mode) == n

(* the length a convolution with a kernel of k leaves of n: unpadded    *)
(* ('valid') n - k + 1, padded ('same') n                               *)
ConvLength(n, k, border_mode) == IF border_mode = "valid" THEN n - k + 1 ELSE n

(* the length a pooling of size pool, moved by pool, leaves of n *)
PoolLength(n, pool) == n \div pool

(* the shape (per sample) a layer gives out for the shape it is given *)
OutputShape(layer, shape) ==
    IF layer.type = "Convolution2D"
    THEN << layer.nb_filter,
            ConvLength(shape[2], layer.nb_row, layer.border_mode),
            ConvLength(shape[3], layer.nb_col, layer.border_mode) >>
    ELSE IF layer.type = "MaxPooling2D"
    THEN << shape[1], PoolLength(shape[2], layer.pool_size[1]),
            PoolLength(shape[3], layer.pool_size[2]) >>
    ELSE IF layer.type = "Flatten" THEN << Product(shape) >>
    ELSE IF layer.type = "Dense" THEN << layer.output_dim >>
    ELSE shape

RECURSIVE LayerShapes(_, _)
(* the output shapes of the first n layers, the first layer given its   *)
(* input_shape                                                          *)
LayerShapes(ls, n) ==
    IF n = 0 THEN << >>
    ELSE LET before == LayerShapes(ls, n - 1)
         IN  Append(before,
                    OutputShape(ls[n], IF n = 1 THEN ls[1].input_shape
                                       ELSE before[n - 1]))

(* C15: with img_rows = img_cols = 28, nb_conv = 3, nb_pool = 2 and       *)
(* nb_filters = 32 every layer of the MNIST model gives out positive      *)
(* dimensions: the two unpadded convolutions take 28 x 28 to 26 x 26 and  *)
(* to 24 x 24, pooling divides 24 by nb_pool without rest to 12 x 12,     *)
(* Flatten gives nb_filters * 12 * 12 = 4608 features; the reshape to     *)
(* (N, 1, img_rows, img_cols) keeps the number of elements and gives the  *)
(* input_shape of the first layer.                                        *)
C15_LayerShapes ==
    /\ (nb = "MNIST_cnn" /\ compiled) =>
          LET shapes == LayerShapes(layers, Len(layers))
          IN  /\ layers[1].input_shape = << 1, 28, 28 >>
              /\ shapes[1] = << 32, 26, 26 >>
              /\ shapes[3] = << 32, 24, 24 >>
              /\ shapes[4][2] % nb_pool = 0 /\ shapes[4][3] % nb_pool = 0
              /\ shapes[5] = << 32, 12, 12 >>
              /\ shapes[7] = << 4608 >>
              /\ shapes[7] = << nb_filters * 12 * 12 >>
              /\ shapes[8] = << settings.nb_hidden >>
              /\ shapes[Len(layers)] = << settings.nb_classes >>
              /\ \A i \in DOMAIN shapes : \A d \in DOMAIN shapes[i] : shapes[i][d] > 0
              /\ data.loaded /\ Tail(data.X_train.shape) = layers[1].input_shape
              /\ Tail(data.X_test.shape) = layers[1].input_shape
    /\ (nb = "MNIST_cnn" /\ data.loaded) =>
          /\ data.X_train.shape = << Len(data.y_train), 1, img_rows, img_cols >>
          /\ data.X_test.shape = << Len(data.y_test), 1, img_rows, img_cols >>
          /\ Product(data.X_train.shape) = Product(raw.X_train.shape)
          /\ Product(data.X_test.shape) = Product(raw.X_test.shape)
          /\ ~ReshapeRaises(raw.X_train, data.X_train.shape)
          /\ ~ReshapeRaises(raw.X_test, data.X_test.shape)

C15_Witness ==
    /\ nb = "MNIST_cnn"
    /\ compiled
    /\ data.loaded
    /\ Len(data.y_train) > 1
    /\ LayerShapes(layers, Len(layers))[7] = << 4608 >>
    /\ Product(data.X_train.shape) = Len(data.y_train) * 784

====
